---- MODULE Spec2Model ----
(***************************************************************************)
(* Model of Boolector's apply-elimination pass, btor_eliminate_applies     *)
(* (src/src/simplifier/btorelimapplies.c): a fixpoint loop that beta-      *)
(* reduces every non-parameterized application of a lambda and rebuilds    *)
(* the hash-consed, reference-counted formula graph.                       *)
(*                                                                         *)
(* A node is identified by its structure (hash-consing): <<kind, e0, e1>>. *)
(* Lambdas are closed; the single parameter node P refers to the nearest   *)
(* enclosing lambda.                                                       *)
(*                                                                         *)
(* The driver is translated from the source, one action per step of its    *)
(* loop.  The node universe, the beta reducer (reduction to the fully      *)
(* reduced body, backed by the pair cache) and the rebuild pass are not    *)
(* part of that file; they follow the contracts of the specification.      *)
(* The constructor MkAnd rewrites x & 0 to 0, so that a rebuild can turn a *)
(* parameterized apply into a ground one (source note, lines 39-42).       *)
(***************************************************************************)
EXTENDS Integers, Sequences, FiniteSets, TLC

\* ------------------------------------------------------------- bounds
NumVars == 1
MaxRuns == 2
MaxArgs == 2
NumSigs == 2

\* ------------------------------------------------------- node universe
Var(i) == <<"var", i, 0>>
Zero == <<"zero", 0, 0>>
P == <<"param", 0, 0>>
And(a, b) == <<"and", a, b>>
Lambda(b) == <<"lambda", b, 0>>
Apply(f, a) == <<"apply", f, a>>
NoNode == <<"none", 0, 0>>
Fault == <<"fault", 0, 0>>

Kind(n) == n[1]
IsLambda(n) == Kind(n) = "lambda"
IsApply(n) == Kind(n) = "apply"

\* children of a node, in order (a parent holds one reference per entry)
Children(n) ==
  CASE Kind(n) = "and" -> <<n[2], n[3]>>
    [] Kind(n) = "apply" -> <<n[2], n[3]>>
    [] Kind(n) = "lambda" -> <<n[2]>>
    [] OTHER -> <<>>

\* node constructor with the one rewrite rule of the model: x & 0 = 0
MkAnd(a, b) == IF a = Zero \/ b = Zero THEN Zero ELSE And(a, b)

\* the parameterized flag: the node depends on a parameter not bound in it
RECURSIVE Parameterized(_)
Parameterized(n) ==
  CASE Kind(n) = "param" -> TRUE
    [] Kind(n) = "and" -> Parameterized(n[2]) \/ Parameterized(n[3])
    [] Kind(n) = "apply" -> Parameterized(n[2]) \/ Parameterized(n[3])
    [] OTHER -> FALSE

RECURSIVE SubTerms(_)
SubTerms(n) ==
  {n} \cup
  (CASE Kind(n) = "and" -> SubTerms(n[2]) \cup SubTerms(n[3])
     [] Kind(n) = "apply" -> SubTerms(n[2]) \cup SubTerms(n[3])
     [] Kind(n) = "lambda" -> SubTerms(n[2])
     [] OTHER -> {})

\* --------------------------------------------------- reference counts
Live(rc) == DOMAIN rc \ {Fault}

Without(rc, n) == [m \in DOMAIN rc \ {n} |-> rc[m]]

\* F applied to the value of x: C evaluates an argument once, before the call
Eager(F(_), x) == CHOOSE y \in {F(v) : v \in {x}} : TRUE

\* btor_node_copy / construct-or-get-canonical: one more reference to n,
\* allocating n (and, recursively, its children) when it is not in the table
RECURSIVE Create(_, _)
Create(rc, n) ==
  IF n \in DOMAIN rc THEN [rc EXCEPT ![n] = @ + 1]
  ELSE LET ch == Children(n)
           r1 == IF Len(ch) >= 1
                   THEN Eager(LAMBDA c : Create(rc, c), ch[1]) ELSE rc
           r2 == IF Len(ch) >= 2
                   THEN Eager(LAMBDA c : Eager(LAMBDA r : Create(r, c), r1),
                              ch[2])
                   ELSE r1
       IN  Eager(LAMBDA r : r @@ (n :> 1), r2)

\* btor_node_release: one reference less; at zero the node is deallocated
\* and releases its children. Releasing a node that is not live is a fault.
RECURSIVE Release(_, _)
Release(rc, n) ==
  IF n \notin DOMAIN rc THEN rc @@ (Fault :> 1)
  ELSE IF rc[n] > 1 THEN [rc EXCEPT ![n] = @ - 1]
  ELSE LET ch == Children(n)
           r1 == IF Len(ch) >= 1
                   THEN Eager(LAMBDA c : Eager(LAMBDA r : Release(r, c),
                                               Without(rc, n)),
                              ch[1])
                   ELSE Without(rc, n)
           r2 == IF Len(ch) >= 2
                   THEN Eager(LAMBDA c : Eager(LAMBDA r : Release(r, c), r1),
                              ch[2])
                   ELSE r1
       IN  r2

RECURSIVE CreateAll(_, _)
CreateAll(rc, s) ==
  IF s = <<>> THEN rc
  ELSE Eager(LAMBDA t : Eager(LAMBDA r : CreateAll(r, t),
                              Eager(LAMBDA h : Create(rc, h), Head(s))),
             Tail(s))

RECURSIVE ReleaseAll(_, _)
ReleaseAll(rc, s) ==
  IF s = <<>> THEN rc
  ELSE Eager(LAMBDA t : Eager(LAMBDA r : ReleaseAll(r, t),
                              Eager(LAMBDA h : Release(rc, h), Head(s))),
             Tail(s))

\* a set as a sequence, in some order
RECURSIVE SeqOf(_)
SeqOf(S) ==
  IF S = {} THEN <<>>
  ELSE Eager(LAMBDA x : <<x>> \o Eager(LAMBDA T : SeqOf(T), S \ {x}),
             CHOOSE y \in S : TRUE)

\* the lambda registry, btor->lambdas
Lambdas(rc) == {n \in Live(rc) : IsLambda(n)}

\* the apply parents of a lambda (btor_iter_apply_parent_*)
ApplyParents(rc, f) == {n \in Live(rc) : IsApply(n) /\ n[2] = f}

\* ------------------------------------------------------- beta reducer
\* btor_beta_reduce_full: the fully reduced value of n with the enclosing
\* lambda's parameter bound to arg
RECURSIVE BetaReduce(_, _)
BetaReduce(n, arg) ==
  CASE Kind(n) = "param" -> arg
    [] Kind(n) = "and" -> MkAnd(BetaReduce(n[2], arg), BetaReduce(n[3], arg))
    [] Kind(n) = "apply" -> BetaReduce(n[2][2], BetaReduce(n[3], arg))
    [] OTHER -> n

\* what a call of the reducer on n finds missing in the cache and computes:
\* a pair found in the cache is served from it and not descended into
RECURSIVE Misses(_, _, _)
Misses(n, arg, keys) ==
  CASE Kind(n) = "and" -> Misses(n[2], arg, keys) \cup Misses(n[3], arg, keys)
    [] Kind(n) = "apply" ->
         LET a == BetaReduce(n[3], arg)
         IN  Misses(n[3], arg, keys) \cup
             (IF <<n[2], a>> \in keys THEN {}
              ELSE Misses(n[2][2], a, keys) \cup {<<n[2], a, BetaReduce(n[2][2], a)>>})
    [] OTHER -> {}

\* the pairs a call of the reducer on n is served from the cache
RECURSIVE Hits(_, _, _)
Hits(n, arg, keys) ==
  CASE Kind(n) = "and" -> Hits(n[2], arg, keys) \cup Hits(n[3], arg, keys)
    [] Kind(n) = "apply" ->
         LET a == BetaReduce(n[3], arg)
         IN  Hits(n[3], arg, keys) \cup
             (IF <<n[2], a>> \in keys THEN {<<n[2], a>>}
              ELSE Hits(n[2][2], a, keys))
    [] OTHER -> {}

\* Pair Cache put: the entries of cch plus one entry per computed triple
CachePut(cch, triples) ==
  [k \in DOMAIN cch \cup {<<t[1], t[2]>> : t \in triples} |->
     IF k \in DOMAIN cch THEN cch[k]
     ELSE (CHOOSE t \in triples : <<t[1], t[2]>> = k)[3]]

\* the values of the cache / of a map, one per entry, as a sequence
ValuesOf(f) ==
  Eager(LAMBDA s : [i \in 1..Len(s) |-> f[s[i]]], SeqOf(DOMAIN f))

EmptyMap == [n \in {} |-> NoNode]

\* ------------------------------------------------------- rebuild pass
\* btor_substitute_and_rebuild: every occurrence of a key of the map is
\* replaced by its value, parents are rebuilt bottom-up through the node
\* constructors; values are not substituted again
RECURSIVE Rebuilt(_, _)
Rebuilt(n, map) ==
  IF n \in DOMAIN map THEN map[n]
  ELSE CASE Kind(n) = "and" -> MkAnd(Rebuilt(n[2], map), Rebuilt(n[3], map))
         [] Kind(n) = "apply" -> Apply(Rebuilt(n[2], map), Rebuilt(n[3], map))
         [] Kind(n) = "lambda" -> Lambda(Rebuilt(n[2], map))
         [] OTHER -> n

\* ------------------------------------------------------------- inputs
Vars == {Var(i) : i \in 1..NumVars}
Atoms == Vars \cup {Zero}
Funs0 == {Lambda(P), Lambda(Zero), Lambda(And(P, P))}
Ground1 == Atoms \cup {Apply(f, a) : f \in Funs0, a \in Atoms}
Bodies1 ==
  {Apply(f, P) : f \in Funs0} \cup
  {Apply(f, And(P, g)) : f \in Funs0, g \in Ground1 \ {Zero}}
Funs1 == Funs0 \cup {Lambda(b) : b \in Bodies1}
Formulas ==
  {Apply(f, a) : f \in Funs1, a \in Ground1} \cup
  {MkAnd(a, b) : a \in Ground1, b \in Ground1}

\* the externally referenced nodes: the formula and, possibly, a handle
\* on one of its lambdas
Inputs ==
  {<<g>> : g \in Formulas} \cup
  UNION {{<<g, l>> : l \in {n \in SubTerms(g) : IsLambda(n)}} : g \in Formulas}

\* -------------------------------------------------------------- state
VARIABLES
  refs,               \* node table: live node -> reference count
  roots,              \* external handles (formula root, retained lambda)
  cache,              \* Pair Cache: <<lambda, argument>> -> value
  cacheLive,          \* the cache table exists
  substs,             \* btor->substitutions: node -> replacement
  substsLive,         \* the substitution table exists
  pc,                 \* position in btor_eliminate_applies
  num_applies, num_applies_total, round,
  fun, app, subst,    \* locals: current lambda, current apply, its reduct
  doneFuns, doneApps, \* iterator positions: what h_it / it have yielded
  msgs,               \* BTOR_MSG records
  elimapplies,        \* number of additions to btor->time.elimapplies
  run,                \* invocation number of the pass
  input,              \* the roots the first invocation was given
  refs0, roots0,      \* the graph when the current invocation began
  maps,               \* per round: the substitution map handed to rebuild
  rebuilds,           \* rebuild calls: run, round and substitution count
  reductions,         \* per pair: the rounds in which it was computed
  hits,               \* <<lambda, argument, round>> served from the cache
  redAcq, redRel,     \* reducer results obtained / released by the driver
  passAcq, passRel,   \* references acquired / released by driver, map, cache
  cacheCreated,       \* cache tables created in this invocation
  checks,             \* debug checks performed in this invocation
  asserts             \* assertions that failed

\* boolector_main and its signal handlers (btormain.c)
VARIABLES
  argv, argi,         \* the arguments after argv[0], the loop index i
  close_infile,       \* static_app->close_infile: an input file was opened
  done, err,          \* static_app->done, static_app->err
  errors,             \* the messages given to btormain_error, in order
  inc, incid, incla, incint, dump,
  static_verbosity,
  parse_status, sat_res,
  main_res,           \* res of boolector_main
  parsed, solved,     \* a parse function / boolector_sat was called
  printed,            \* what was written to the output, in order
  mpc,                \* position in boolector_main
  orig,               \* disposition of each signal when the process began
  disp,               \* current disposition of each signal
  sig_handler,        \* sig_int_handler ..: the saved dispositions
  sigk,               \* the signal set_sig_handlers is at
  sigret,             \* what the last signal () call returned
  static_caught_sig,
  frames,             \* running catch_sig invocations, innermost last
  raises,             \* per re-raise: the signal and the dispositions then
  proc                \* "running", "returned", "exited" or "killed"

mainVars ==
  <<argv, argi, close_infile, done, err, errors, inc, incid, incla, incint, dump,
    static_verbosity, parse_status, sat_res, main_res, parsed, solved, printed,
    mpc, orig, disp, sig_handler, sigk, sigret,
    static_caught_sig, frames, raises,
    proc>>

passVars ==
  <<refs, roots, cache, cacheLive, substs, substsLive, pc, num_applies,
    num_applies_total, round, fun, app, subst, doneFuns, doneApps, msgs,
    elimapplies, run, input, refs0, roots0, maps, rebuilds, reductions, hits,
    redAcq, redRel, passAcq, passRel, cacheCreated, checks, asserts>>

vars ==
  <<refs, roots, cache, cacheLive, substs, substsLive, pc, num_applies,
    num_applies_total, round, fun, app, subst, doneFuns, doneApps, msgs,
    elimapplies, run, input, refs0, roots0, maps, rebuilds, reductions, hits,
    redAcq, redRel, passAcq, passRel, cacheCreated, checks, asserts,
    mainVars>>

graphVars == <<refs, roots>>
cacheVars == <<cache, cacheLive>>
substVars == <<substs, substsLive>>
localVars == <<num_applies, num_applies_total, round, fun, app, subst>>
iterVars == <<doneFuns, doneApps>>
outVars == <<msgs, elimapplies>>
frameVars == <<run, input, refs0, roots0>>
histVars == <<maps, rebuilds, reductions, hits>>
countVars == <<redAcq, redRel, passAcq, passRel, cacheCreated, checks>>

EmptyTable == [n \in {} |-> 0]

\* ------------------------------------------------- boolector_main inputs
\* an argument: a word (no leading '-') or an option, with the value after
\* '=' (NoVal when there is no '='); options are named by the long name the
\* option tables give them
NoVal == -1
Arg(k, v) == [k |-> k, val |-> v]
Words == {Arg("file", NoVal), Arg("nofile", NoVal), Arg("one", NoVal)}
IncOpts ==
  {Arg(k, v) : k \in {"incremental_in_depth", "incremental_look_ahead",
                      "incremental_interval"},
               v \in {NoVal, 0, 1}}
Args ==
  Words \cup IncOpts \cup
  {Arg(k, NoVal) : k \in {"help", "incremental", "dump_btor", "verbosity",
                          "invalid"}}

RECURSIVE ArgSeqs(_)
ArgSeqs(n) ==
  IF n = 0 THEN {<<>>}
  ELSE ArgSeqs(n - 1) \cup
       {Append(a, t) : a \in {b \in ArgSeqs(n - 1) : Len(b) = n - 1}, t \in Args}

\* atoi of an argument: the word "1" reads as 1, any other argument as 0
Atoi(t) == IF t.k = "one" THEN 1 ELSE 0

\* btor_file_exists and fopen succeed on the word "file" only
Readable(t) == t.k = "file"

Sigs == 1..NumSigs

\* boolector_main is entered with arguments a and signal dispositions o
\* (lines 573-585; statics are zero)
MainStart(a, o) ==
  /\ argv = a /\ argi = 1 /\ close_infile = FALSE
  /\ done = FALSE /\ err = FALSE /\ errors = <<>>
  /\ inc = FALSE /\ incid = FALSE /\ incla = FALSE /\ incint = FALSE
  /\ dump = FALSE /\ static_verbosity = 0
  /\ parse_status = "unknown" /\ sat_res = "unknown" /\ main_res = "unknown"
  /\ parsed = FALSE /\ solved = FALSE /\ printed = <<>>
  /\ mpc = "Args"
  /\ orig = o /\ disp = o
  /\ sig_handler = [s \in Sigs |-> "DFL"]
  /\ sigk = 1 /\ sigret = "DFL"
  /\ static_caught_sig = FALSE
  /\ frames = <<>> /\ raises = <<>>
  /\ proc = "running"

\* the pass is about to be called on the graph of the handles rts
PassFrame(rts) ==
  /\ roots = rts
  /\ refs = CreateAll(EmptyTable, roots)
  /\ cache = EmptyMap /\ cacheLive = FALSE
  /\ substs = EmptyMap /\ substsLive = FALSE
  /\ pc = "Idle"
  /\ num_applies = 0 /\ num_applies_total = 0 /\ round = 0
  /\ fun = NoNode /\ app = NoNode /\ subst = NoNode
  /\ doneFuns = {} /\ doneApps = {}
  /\ msgs = <<>> /\ elimapplies = 0
  /\ run = 1 /\ input = roots /\ refs0 = refs /\ roots0 = roots
  /\ maps = <<>> /\ rebuilds = <<>>
  /\ reductions = EmptyMap /\ hits = {}
  /\ redAcq = 0 /\ redRel = 0 /\ passAcq = 0 /\ passRel = 0
  /\ cacheCreated = 0 /\ checks = {} /\ asserts = {}

Init ==
  \E rts \in Inputs : PassFrame(rts) /\ MainStart(<<>>, [s \in Sigs |-> "DFL"])

\* ------------------------------------------------------------- driver
\* mutation: the early return on an empty registry is missing
EarlyReturnNever(rc) == FALSE

\* line 31: if (btor->lambdas->count == 0) return;
EarlyReturn(rc) == Cardinality(Lambdas(rc)) = 0

\* mutation: the collector yields every apply parent
EliminableAll(a) == TRUE

\* mutation: every apply parent is skipped
EliminableNone(a) == FALSE

\* line 59: if (app->parameterized) continue;
Eliminable(a) == ~Parameterized(a)

\* mutation: the loop continues only after more than one substitution
LoopAgainOffByOne(n) == n > 1

\* mutation: the loop is left after its first round
LoopAgainNever(n) == FALSE

\* mutation: the round counter advances by two
NextRoundSkips(r) == r + 2

\* line 78: round++
NextRound(r) == r + 1

\* line 79: while (num_applies > 0)
LoopAgain(n) == n > 0

\* lines 31-37: entry, early return or time stamp, round = 1, new cache
Start ==
  /\ pc = "Idle"
  /\ IF EarlyReturn(refs)
       THEN /\ pc' = "Converged"
            /\ UNCHANGED <<cacheVars, round, cacheCreated>>
       ELSE /\ pc' = "RoundStart"
            /\ round' = 1
            /\ cache' = EmptyMap /\ cacheLive' = TRUE
            /\ cacheCreated' = cacheCreated + 1
  /\ UNCHANGED <<graphVars, substVars, num_applies, num_applies_total, fun,
                 app, subst, iterVars, outVars, frameVars, histVars, redAcq,
                 redRel, passAcq, passRel, checks, asserts>>
  /\ UNCHANGED mainVars

\* mutation: the round does not create its substitution map
RoundStartNoInit ==
  /\ pc = "RoundStart"
  /\ num_applies' = 0
  /\ doneFuns' = {} /\ doneApps' = {}
  /\ pc' = "NextFun"
  /\ UNCHANGED <<graphVars, cacheVars, substVars, num_applies_total, round,
                 fun, app, subst, outVars, frameVars, histVars, countVars,
                 asserts>>
  /\ UNCHANGED mainVars

\* mutation: the cache is made anew in every round
RoundStartFreshCache ==
  /\ pc = "RoundStart"
  /\ num_applies' = 0
  /\ substs' = EmptyMap /\ substsLive' = TRUE
  /\ doneFuns' = {} /\ doneApps' = {}
  /\ cache' = EmptyMap
  /\ refs' = ReleaseAll(refs, ValuesOf(cache))
  /\ pc' = "NextFun"
  /\ UNCHANGED <<roots, cacheLive, num_applies_total, round, fun, app,
                 subst, outVars, frameVars, histVars, countVars, asserts>>
  /\ UNCHANGED mainVars

\* lines 45-49: num_applies = 0, btor_init_substitutions, iterator on lambdas
RoundStart ==
  /\ pc = "RoundStart"
  /\ num_applies' = 0
  /\ substs' = EmptyMap /\ substsLive' = TRUE
  /\ doneFuns' = {} /\ doneApps' = {}
  /\ pc' = "NextFun"
  /\ UNCHANGED <<graphVars, cacheVars, num_applies_total, round, fun, app,
                 subst, outVars, frameVars, histVars, countVars, asserts>>
  /\ UNCHANGED mainVars

\* lines 50-54: the next lambda of the registry, iterator on its parents
PickFun ==
  /\ pc = "NextFun"
  /\ \E f \in Lambdas(refs) \ doneFuns :
       /\ fun' = f
       /\ doneApps' = {}
       /\ pc' = "NextApp"
  /\ UNCHANGED <<graphVars, cacheVars, substVars, num_applies,
                 num_applies_total, round, app, subst, doneFuns, outVars,
                 frameVars, histVars, countVars, asserts>>
  /\ UNCHANGED mainVars

\* mutation: the apply is counted before the parameterized test
SkipParameterizedCounts ==
  /\ pc = "NextApp"
  /\ \E a \in ApplyParents(refs, fun) \ doneApps :
       /\ ~Eliminable(a)
       /\ doneApps' = doneApps \cup {a}
  /\ num_applies' = num_applies + 1
  /\ UNCHANGED <<graphVars, cacheVars, substVars, pc, num_applies_total,
                 round, fun, app, subst, doneFuns, outVars, frameVars,
                 histVars, countVars, asserts>>
  /\ UNCHANGED mainVars

\* mutation: a parameterized apply parent is skipped without advancing the
\* parent iterator
SkipParameterizedStuck ==
  /\ pc = "NextApp"
  /\ \E a \in ApplyParents(refs, fun) \ doneApps : ~Eliminable(a)
  /\ UNCHANGED vars

\* lines 55-59: the next apply parent is parameterized and is skipped
SkipParameterized ==
  /\ pc = "NextApp"
  /\ \E a \in ApplyParents(refs, fun) \ doneApps :
       /\ ~Eliminable(a)
       /\ doneApps' = doneApps \cup {a}
  /\ UNCHANGED <<graphVars, cacheVars, substVars, pc, localVars, doneFuns,
                 outVars, frameVars, histVars, countVars, asserts>>
  /\ UNCHANGED mainVars

\* lines 55-62: the next apply parent is not parameterized: it is counted
\* and reduced; the reducer fills the cache and returns an owned reference
Reduce ==
  /\ pc = "NextApp"
  /\ \E a \in ApplyParents(refs, fun) \ doneApps :
       /\ Eliminable(a)
       /\ \E keys \in {DOMAIN cache} :
          \E miss \in {Misses(a, NoNode, keys)} :
          \E hit \in {Hits(a, NoNode, keys)} :
          \E cch \in {CachePut(cache, miss)} :
          \E res \in {cch[<<a[2], BetaReduce(a[3], NoNode)>>]} :
              /\ cache' = cch
              /\ refs' = Create(CreateAll(refs,
                                   ValuesOf([k \in DOMAIN cch \ keys |-> cch[k]])), res)
              /\ subst' = res
              /\ reductions' =
                   [k \in DOMAIN reductions \cup {<<t[1], t[2]>> : t \in miss} |->
                      (IF k \in DOMAIN reductions THEN reductions[k] ELSE <<>>)
                        \o (IF \E t \in miss : <<t[1], t[2]>> = k
                              THEN <<round>> ELSE <<>>)]
              /\ hits' = hits \cup {<<h[1], h[2], round>> : h \in hit}
              /\ passAcq' = passAcq + Cardinality(miss) + 1
       /\ app' = a
       /\ doneApps' = doneApps \cup {a}
  /\ num_applies' = num_applies + 1
  /\ redAcq' = redAcq + 1
  /\ pc' = "Insert"
  /\ UNCHANGED <<roots, cacheLive, substVars, num_applies_total, round, fun,
                 doneFuns, outVars, frameVars, maps, rebuilds, redRel,
                 passRel, cacheCreated, checks, asserts>>
  /\ UNCHANGED mainVars

\* mutation: the insert takes no reference to the value it stores
InsertBorrowsValue ==
  /\ pc = "Insert"
  /\ IF app \in DOMAIN substs
       THEN /\ asserts' = asserts \cup {"duplicate"}
            /\ UNCHANGED <<refs, substs, passAcq>>
       ELSE /\ substs' = [k \in DOMAIN substs \cup {app} |->
                            IF k = app THEN subst ELSE substs[k]]
            /\ refs' = Create(refs, app)
            /\ passAcq' = passAcq + 1
            /\ UNCHANGED asserts
  /\ pc' = "Release"
  /\ UNCHANGED <<roots, cacheVars, substsLive, localVars, iterVars, outVars,
                 frameVars, histVars, redAcq, redRel, passRel, cacheCreated,
                 checks>>
  /\ UNCHANGED mainVars

\* mutation: the insert releases the key instead of taking a reference to it
InsertReleasesKey ==
  /\ pc = "Insert"
  /\ IF app \in DOMAIN substs
       THEN /\ asserts' = asserts \cup {"duplicate"}
            /\ UNCHANGED <<refs, substs, passAcq>>
       ELSE /\ substs' = [k \in DOMAIN substs \cup {app} |->
                            IF k = app THEN subst ELSE substs[k]]
            /\ refs' = Create(Release(refs, app), subst)
            /\ passAcq' = passAcq + 1
            /\ UNCHANGED asserts
  /\ pc' = "Release"
  /\ UNCHANGED <<roots, cacheVars, substsLive, localVars, iterVars, outVars,
                 frameVars, histVars, redAcq, redRel, passRel, cacheCreated,
                 checks>>
  /\ UNCHANGED mainVars

\* lines 63-64: assert the apply is no key yet; btor_insert_substitution
\* records app -> subst and takes a reference to each
Insert ==
  /\ pc = "Insert"
  /\ IF app \in DOMAIN substs
       THEN /\ asserts' = asserts \cup {"duplicate"}
            /\ UNCHANGED <<refs, substs, passAcq>>
       ELSE /\ substs' = [k \in DOMAIN substs \cup {app} |->
                            IF k = app THEN subst ELSE substs[k]]
            /\ refs' = Create(Create(refs, app), subst)
            /\ passAcq' = passAcq + 2
            /\ UNCHANGED asserts
  /\ pc' = "Release"
  /\ UNCHANGED <<roots, cacheVars, substsLive, localVars, iterVars, outVars,
                 frameVars, histVars, redAcq, redRel, passRel, cacheCreated,
                 checks>>
  /\ UNCHANGED mainVars

\* mutation: the reducer's result is not released
ReleaseSubstMissing ==
  /\ pc = "Release"
  /\ subst' = NoNode /\ app' = NoNode
  /\ pc' = "NextApp"
  /\ UNCHANGED <<graphVars, cacheVars, substVars, num_applies,
                 num_applies_total, round, fun, iterVars, outVars, frameVars,
                 histVars, countVars, asserts>>
  /\ UNCHANGED mainVars

\* line 65: btor_node_release (btor, subst)
ReleaseSubst ==
  /\ pc = "Release"
  /\ refs' = Release(refs, subst)
  /\ subst' = NoNode /\ app' = NoNode
  /\ redRel' = redRel + 1
  /\ passRel' = passRel + 1
  /\ pc' = "NextApp"
  /\ UNCHANGED <<roots, cacheVars, substVars, num_applies, num_applies_total,
                 round, fun, iterVars, outVars, frameVars, histVars, redAcq,
                 passAcq, cacheCreated, checks, asserts>>
  /\ UNCHANGED mainVars

\* mutation: leaving one lambda's parents ends the registry traversal
AppsExhaustedBreaks ==
  /\ pc = "NextApp"
  /\ ApplyParents(refs, fun) \ doneApps = {}
  /\ doneFuns' = Lambdas(refs)
  /\ fun' = NoNode
  /\ pc' = "NextFun"
  /\ UNCHANGED <<graphVars, cacheVars, substVars, num_applies,
                 num_applies_total, round, app, subst, doneApps, outVars,
                 frameVars, histVars, countVars, asserts>>
  /\ UNCHANGED mainVars

\* mutation: the registry iterator does not advance past the lambda
AppsExhaustedNoAdvance ==
  /\ pc = "NextApp"
  /\ ApplyParents(refs, fun) \ doneApps = {}
  /\ fun' = NoNode
  /\ pc' = "NextFun"
  /\ UNCHANGED <<graphVars, cacheVars, substVars, num_applies,
                 num_applies_total, round, app, subst, iterVars, outVars,
                 frameVars, histVars, countVars, asserts>>
  /\ UNCHANGED mainVars

\* line 55: the parents of the current lambda are exhausted
AppsExhausted ==
  /\ pc = "NextApp"
  /\ ApplyParents(refs, fun) \ doneApps = {}
  /\ doneFuns' = doneFuns \cup {fun}
  /\ fun' = NoNode
  /\ pc' = "NextFun"
  /\ UNCHANGED <<graphVars, cacheVars, substVars, num_applies,
                 num_applies_total, round, app, subst, doneApps, outVars,
                 frameVars, histVars, countVars, asserts>>
  /\ UNCHANGED mainVars

\* mutation: the round message carries the running total, not the round's
\* count
FunsExhaustedLogsTotal ==
  /\ pc = "NextFun"
  /\ Lambdas(refs) \ doneFuns = {}
  /\ num_applies_total' = num_applies_total + num_applies
  /\ msgs' = Append(msgs, [kind |-> "round", run |-> run, round |-> round,
                           n |-> num_applies_total + num_applies])
  /\ maps' = Append(maps, substs)
  /\ pc' = "Rebuild"
  /\ UNCHANGED <<graphVars, cacheVars, substVars, num_applies, round, fun,
                 app, subst, iterVars, elimapplies, frameVars, rebuilds,
                 reductions, hits, countVars, asserts>>
  /\ UNCHANGED mainVars

\* lines 50, 69-74: the registry is exhausted; total and round message
FunsExhausted ==
  /\ pc = "NextFun"
  /\ Lambdas(refs) \ doneFuns = {}
  /\ num_applies_total' = num_applies_total + num_applies
  /\ msgs' = Append(msgs, [kind |-> "round", run |-> run, round |-> round,
                           n |-> num_applies])
  /\ maps' = Append(maps, substs)
  /\ pc' = "Rebuild"
  /\ UNCHANGED <<graphVars, cacheVars, substVars, num_applies, round, fun,
                 app, subst, iterVars, elimapplies, frameVars, rebuilds,
                 reductions, hits, countVars, asserts>>
  /\ UNCHANGED mainVars

\* mutation: every rebuilt handle is acquired, the old handle is released
\* only where the rebuild changed it
RebuildLeaksUnchanged ==
  /\ pc = "Rebuild"
  /\ roots' = [i \in DOMAIN roots |-> Rebuilt(roots[i], substs)]
  /\ refs' = ReleaseAll(CreateAll(refs, roots'),
                        SelectSeq(roots, LAMBDA n : Rebuilt(n, substs) # n))
  /\ rebuilds' = Append(rebuilds, [run |-> run, round |-> round,
                                   n |-> num_applies])
  /\ pc' = "DeleteSubst"
  /\ UNCHANGED <<cacheVars, substVars, localVars, iterVars, outVars,
                 frameVars, maps, reductions, hits, countVars, asserts>>
  /\ UNCHANGED mainVars

\* mutation: rebuild is called only when the round recorded a substitution
RebuildIfAny ==
  /\ pc = "Rebuild"
  /\ roots' = [i \in DOMAIN roots |-> Rebuilt(roots[i], substs)]
  /\ refs' = ReleaseAll(CreateAll(refs, roots'), roots)
  /\ rebuilds' = IF num_applies > 0
                   THEN Append(rebuilds, [run |-> run, round |-> round,
                                          n |-> num_applies])
                   ELSE rebuilds
  /\ pc' = "DeleteSubst"
  /\ UNCHANGED <<cacheVars, substVars, localVars, iterVars, outVars,
                 frameVars, maps, reductions, hits, countVars, asserts>>
  /\ UNCHANGED mainVars

\* line 76: btor_substitute_and_rebuild (btor, btor->substitutions)
Rebuild ==
  /\ pc = "Rebuild"
  /\ roots' = [i \in DOMAIN roots |-> Rebuilt(roots[i], substs)]
  /\ refs' = ReleaseAll(CreateAll(refs, roots'), roots)
  /\ rebuilds' = Append(rebuilds, [run |-> run, round |-> round,
                                   n |-> num_applies])
  /\ pc' = "DeleteSubst"
  /\ UNCHANGED <<cacheVars, substVars, localVars, iterVars, outVars,
                 frameVars, maps, reductions, hits, countVars, asserts>>
  /\ UNCHANGED mainVars

\* line 77: btor_delete_substitutions: every key and value is released
DeleteSubst ==
  /\ pc = "DeleteSubst"
  /\ refs' = Eager(LAMBDA s : ReleaseAll(refs, s),
                 SeqOf(DOMAIN substs) \o ValuesOf(substs))
  /\ passRel' = passRel + 2 * Cardinality(DOMAIN substs)
  /\ substs' = EmptyMap /\ substsLive' = FALSE
  /\ pc' = "LoopTest"
  /\ UNCHANGED <<roots, cacheVars, localVars, iterVars, outVars, frameVars,
                 histVars, redAcq, redRel, passAcq, cacheCreated, checks,
                 asserts>>
  /\ UNCHANGED mainVars

\* lines 78-79: round++; while (num_applies > 0)
LoopTest ==
  /\ pc = "LoopTest"
  /\ round' = NextRound(round)
  /\ pc' = IF LoopAgain(num_applies) THEN "RoundStart" ELSE "DbgCheck"
  /\ UNCHANGED <<graphVars, cacheVars, substVars, num_applies,
                 num_applies_total, fun, app, subst, iterVars, outVars,
                 frameVars, histVars, countVars, asserts>>
  /\ UNCHANGED mainVars

\* lines 81-94: every apply parent of every lambda must be parameterized
DbgCheck ==
  /\ pc = "DbgCheck"
  /\ checks' = checks \cup {"applies"}
  /\ asserts' = IF \E f \in Lambdas(refs) : \E a \in ApplyParents(refs, f) :
                     ~Parameterized(a)
                  THEN asserts \cup {"ground apply"} ELSE asserts
  /\ pc' = "Teardown"
  /\ UNCHANGED <<graphVars, cacheVars, substVars, localVars, iterVars,
                 outVars, frameVars, histVars, redAcq, redRel, passAcq,
                 passRel, cacheCreated>>
  /\ UNCHANGED mainVars

\* mutation: the cache table is deleted without releasing its values
TeardownLeak ==
  /\ pc = "Teardown"
  /\ cache' = EmptyMap /\ cacheLive' = FALSE
  /\ pc' = "Stats"
  /\ UNCHANGED <<graphVars, substVars, localVars, iterVars, outVars,
                 frameVars, histVars, countVars, asserts>>
  /\ UNCHANGED mainVars

\* mutation: every cache value is released twice
TeardownDouble ==
  /\ pc = "Teardown"
  /\ refs' = ReleaseAll(ReleaseAll(refs, ValuesOf(cache)), ValuesOf(cache))
  /\ passRel' = passRel + 2 * Cardinality(DOMAIN cache)
  /\ cache' = EmptyMap /\ cacheLive' = FALSE
  /\ pc' = "Stats"
  /\ UNCHANGED <<roots, substVars, localVars, iterVars, outVars, frameVars,
                 histVars, redAcq, redRel, passAcq, cacheCreated, checks,
                 asserts>>
  /\ UNCHANGED mainVars

\* lines 96-102: every cache value is released, every pair and the table
\* deleted
Teardown ==
  /\ pc = "Teardown"
  /\ refs' = ReleaseAll(refs, ValuesOf(cache))
  /\ passRel' = passRel + Cardinality(DOMAIN cache)
  /\ cache' = EmptyMap /\ cacheLive' = FALSE
  /\ pc' = "Stats"
  /\ UNCHANGED <<roots, substVars, localVars, iterVars, outVars, frameVars,
                 histVars, redAcq, redRel, passAcq, cacheCreated, checks,
                 asserts>>
  /\ UNCHANGED mainVars

\* mutation: the duration is not added to the statistics
StatsNoDuration ==
  /\ pc = "Stats"
  /\ msgs' = Append(msgs, [kind |-> "total", run |-> run, round |-> 0,
                           n |-> num_applies_total])
  /\ checks' = checks \cup {"tables"}
  /\ pc' = "Converged"
  /\ UNCHANGED <<graphVars, cacheVars, substVars, localVars, iterVars,
                 elimapplies, frameVars, histVars, redAcq, redRel, passAcq,
                 passRel, cacheCreated, asserts>>
  /\ UNCHANGED mainVars

\* lines 104-113: duration added to the statistics, total message, table
\* checks; the function returns
Stats ==
  /\ pc = "Stats"
  /\ elimapplies' = elimapplies + 1
  /\ msgs' = Append(msgs, [kind |-> "total", run |-> run, round |-> 0,
                           n |-> num_applies_total])
  /\ checks' = checks \cup {"tables"}
  /\ pc' = "Converged"
  /\ UNCHANGED <<graphVars, cacheVars, substVars, localVars, iterVars,
                 frameVars, histVars, redAcq, redRel, passAcq, passRel,
                 cacheCreated, asserts>>
  /\ UNCHANGED mainVars

\* the solver calls the pass again on the graph it left: a new frame
Rerun ==
  /\ pc = "Converged"
  /\ run < MaxRuns
  /\ run' = run + 1
  /\ pc' = "Idle"
  /\ num_applies' = 0 /\ num_applies_total' = 0 /\ round' = 0
  /\ fun' = NoNode /\ app' = NoNode /\ subst' = NoNode
  /\ doneFuns' = {} /\ doneApps' = {}
  /\ refs0' = refs /\ roots0' = roots
  /\ reductions' = EmptyMap /\ hits' = {}
  /\ redAcq' = 0 /\ redRel' = 0 /\ passAcq' = 0 /\ passRel' = 0
  /\ cacheCreated' = 0 /\ checks' = {}
  /\ UNCHANGED <<graphVars, cacheVars, substVars, outVars, input, maps,
                 rebuilds, asserts>>
  /\ UNCHANGED mainVars

Next ==
  \/ Start \/ RoundStart \/ PickFun \/ SkipParameterized \/ Reduce \/ Insert
  \/ ReleaseSubst \/ AppsExhausted \/ FunsExhausted \/ Rebuild \/ DeleteSubst
  \/ LoopTest \/ DbgCheck \/ Teardown \/ Stats \/ Rerun

Spec == Init /\ [][Next]_vars

\* ------------------------------------------------------ sanity
\* positions are known, no released node is released again, no assertion fails
TypeOK ==
  /\ pc \in {"Idle", "RoundStart", "NextFun", "NextApp", "Insert", "Release",
             "Rebuild", "DeleteSubst", "LoopTest", "DbgCheck", "Teardown",
             "Stats", "Converged"}
  /\ Fault \notin DOMAIN refs
  /\ asserts = {}

\* ------------------------------------------------- observation helpers
RoundMsgs(r) == SelectSeq(msgs, LAMBDA m : m.kind = "round" /\ m.run = r)
TotalMsgs(r) == SelectSeq(msgs, LAMBDA m : m.kind = "total" /\ m.run = r)
RunRebuilds(r) == SelectSeq(rebuilds, LAMBDA e : e.run = r)
Counts(s) == [i \in DOMAIN s |-> s[i].n]
IsPrefix(s, t) == Len(s) <= Len(t) /\ \A i \in DOMAIN s : s[i] = t[i]

\* references to n held by the children lists of the live nodes
EdgeRefs(rc, n) ==
  Cardinality({m \in Live(rc) : Len(Children(m)) >= 1 /\ Children(m)[1] = n})
  + Cardinality({m \in Live(rc) : Len(Children(m)) >= 2 /\ Children(m)[2] = n})

\* references to n held by the external handles
RootRefs(n) == Cardinality({i \in DOMAIN roots : roots[i] = n})

\* references to n held by the pass: cache values, map keys and values,
\* and the driver's reference to the current reduct
HeldByPass(n) ==
  Cardinality({k \in DOMAIN cache : cache[k] = n})
  + Cardinality({k \in DOMAIN substs : k = n})
  + Cardinality({k \in DOMAIN substs : substs[k] = n})
  + (IF subst = n THEN 1 ELSE 0)

InputNodes == UNION {SubTerms(input[i]) : i \in DOMAIN input}

\* ------------------------------------------------------------- claims

\* C1: whenever the pass has returned, every application parent of every
\* lambda of the registry is parameterized.
C1_NoGroundApplyOnReturn ==
  pc = "Converged" =>
    \A f \in Lambdas(refs) : \A a \in ApplyParents(refs, f) : Parameterized(a)

\* C1 witness: the pass returned after eliminating applications and a
\* registered lambda still has a (parameterized) application parent.
C1_Witness ==
  /\ pc = "Converged" /\ num_applies_total > 0
  /\ \E f \in Lambdas(refs) : ApplyParents(refs, f) # {}

\* C2: an invocation on a graph whose registry is empty never enters a
\* round: no cache, no substitution map, no reduction, no rebuild, no message,
\* and the node table and handles stay as they were.
C2_EmptyRegistryNoOp ==
  Lambdas(refs0) = {} =>
    /\ pc \in {"Idle", "Converged"}
    /\ RoundMsgs(run) = <<>> /\ RunRebuilds(run) = <<>>
    /\ cacheCreated = 0 /\ ~cacheLive /\ ~substsLive
    /\ reductions = EmptyMap /\ redAcq = 0 /\ passAcq = 0
    /\ refs = refs0 /\ roots = roots0

\* C2 witness: the first invocation returned on a lambda-free formula of
\* several nodes.
C2_Witness ==
  /\ pc = "Converged" /\ run = 1 /\ Lambdas(refs0) = {}
  /\ Cardinality(Live(refs)) >= 2

\* C3: an invocation on the graph a converged invocation left records no
\* substitution and leaves the node table and the handles unchanged.
C3_Idempotent ==
  run >= 2 =>
    /\ num_applies = 0 /\ num_applies_total = 0
    /\ \A i \in DOMAIN RoundMsgs(run) : RoundMsgs(run)[i].n = 0
    /\ Len(RoundMsgs(run)) <= 1
    /\ refs = refs0 /\ roots = roots0

\* C3 witness: the second invocation ran its round 1 and returned, after a
\* first invocation that did substitute.
C3_Witness ==
  /\ run = 2 /\ pc = "Converged"
  /\ Len(RoundMsgs(2)) = 1
  /\ \E i \in DOMAIN RoundMsgs(1) : RoundMsgs(1)[i].n > 0

\* C4: when the pass has returned, it has released as many references as it
\* acquired, and every live node's count is exactly the references of its
\* live parents and of the external handles.
C4_RefCountConserved ==
  pc = "Converged" =>
    /\ passAcq = passRel
    /\ Fault \notin DOMAIN refs
    /\ \A n \in Live(refs) : refs[n] = EdgeRefs(refs, n) + RootRefs(n)

\* C4 witness: the pass returned after acquiring references for cache
\* entries, map entries and reducts.
C4_Witness == pc = "Converged" /\ passAcq >= 6 /\ Live(refs) # {}

\* C5: the driver holds at most one reducer result at a time, every result
\* obtained is released once (never more releases than results, none
\* outstanding at return), and at every step each live node's count is
\* exactly the references of its holders, so no release is missing or doubled.
C5_ReductReleasedOnce ==
  /\ redRel <= redAcq /\ redAcq <= redRel + 1
  /\ (redAcq = redRel + 1) <=> (subst # NoNode)
  /\ pc = "Converged" => redAcq = redRel
  /\ Fault \notin DOMAIN refs
  /\ \A n \in Live(refs) :
       refs[n] = EdgeRefs(refs, n) + RootRefs(n) + HeldByPass(n)

\* C5 witness: the pass returned after releasing several reducts, one of
\* which was served from the cache.
C5_Witness == pc = "Converged" /\ redRel >= 2 /\ hits # {}

ScenarioA == <<Apply(Lambda(P), Var(1))>>
ScenarioAMsgs ==
  << [kind |-> "round", run |-> 1, round |-> 1, n |-> 1],
     [kind |-> "round", run |-> 1, round |-> 2, n |-> 0] >>
ScenarioAMaps == << (ScenarioA[1] :> Var(1)), EmptyMap >>

\* C7: on the identity lambda applied to a variable v, round 1 records the
\* one substitution apply -> v, round 2 records none, and the pass returns
\* after exactly these two rounds with v as the formula.
C7_ScenarioA ==
  (input = ScenarioA /\ run = 1) =>
    /\ IsPrefix(RoundMsgs(1), ScenarioAMsgs)
    /\ IsPrefix(maps, ScenarioAMaps)
    /\ pc = "Converged" =>
         /\ RoundMsgs(1) = ScenarioAMsgs /\ maps = ScenarioAMaps
         /\ roots = <<Var(1)>>

\* C7 witness: the pass returned on scenario A.
C7_Witness == input = ScenarioA /\ run = 1 /\ pc = "Converged" /\ Len(maps) = 2

ScenarioB == <<Apply(Lambda(Apply(Lambda(P), P)), Var(1))>>
ScenarioBMsgs ==
  << [kind |-> "round", run |-> 1, round |-> 1, n |-> 1],
     [kind |-> "round", run |-> 1, round |-> 2, n |-> 0] >>
ScenarioBMaps == << (ScenarioB[1] :> Var(1)), EmptyMap >>

C9_Original == \A i \in DOMAIN rebuilds : rebuilds[i].n > 0

\* C9 amended: rebuild is called in every round, the zero-substitution round
\* included, the round counter is incremented after every rebuild, and the
\* loop is left exactly after the rebuild of the first round that recorded
\* no substitution.
C9_RebuildEveryRound ==
  LET rb == RunRebuilds(run)
      rm == RoundMsgs(run)
      inLoop == pc \in {"RoundStart", "NextFun", "NextApp", "Insert", "Release"}
      left == pc \in {"DbgCheck", "Teardown", "Stats"}
                \/ (pc = "Converged" /\ rm # <<>>)
  IN  /\ \A i \in DOMAIN rb : rb[i].round = i /\ rb[i].n = rm[i].n
      /\ Len(rb) = (IF pc = "Rebuild" THEN Len(rm) - 1 ELSE Len(rm))
      /\ inLoop \/ pc = "Rebuild" => round = Len(rb) + 1
      /\ pc \in {"DeleteSubst", "LoopTest"} => round = Len(rb)
      /\ left => round = Len(rb) + 1
      /\ \A i \in DOMAIN rb :
           rb[i].n = 0 => i = Len(rb) /\ (left \/ pc \in {"DeleteSubst", "LoopTest"})
      /\ left => Len(rb) >= 1 /\ rb[Len(rb)].n = 0
      /\ inLoop \/ pc = "Rebuild" => \A i \in DOMAIN rb : rb[i].n > 0

\* C9 witness: the loop has been left after two rebuilds, the last of them
\* in a round without substitutions.
C9_Witness ==
  /\ pc = "DbgCheck" /\ Len(RunRebuilds(run)) >= 2
  /\ RunRebuilds(run)[Len(RunRebuilds(run))].n = 0

\* the steps of one invocation
PassStep ==
  \/ Start \/ RoundStart \/ PickFun \/ SkipParameterized \/ Reduce \/ Insert
  \/ ReleaseSubst \/ AppsExhausted \/ FunsExhausted \/ Rebuild \/ DeleteSubst
  \/ LoopTest \/ DbgCheck \/ Teardown \/ Stats

\* C10 as stated: in Converged, however it was reached, the debug checks
\* were made and the duration of this invocation was recorded.
C10_Original ==
  pc = "Converged" =>
    /\ ~cacheLive
    /\ checks = {"applies", "tables"}
    /\ elimapplies = run

\* C10 amended: in Converged no cache exists and no step of the invocation
\* is enabled; reached through the round loop, the cache was drained, both
\* debug checks were made and the duration was recorded once; reached by the
\* early return on an empty registry, no cache was created, no debug check
\* was made and no duration was recorded.
C10_Terminal ==
  pc = "Converged" =>
    /\ ~cacheLive /\ cache = EmptyMap
    /\ ~ENABLED PassStep
    /\ elimapplies = Len(SelectSeq(msgs, LAMBDA m : m.kind = "total"))
    /\ IF Lambdas(refs0) = {}
         THEN checks = {} /\ cacheCreated = 0 /\ TotalMsgs(run) = <<>>
         ELSE checks = {"applies", "tables"} /\ cacheCreated = 1
              /\ Len(TotalMsgs(run)) = 1

\* C10 witness: a first invocation returned through the loop and recorded
\* its duration, a second one returned early on the lambda-free result.
C10_Witness ==
  /\ pc = "Converged" /\ run = 2 /\ Lambdas(refs0) = {}
  /\ elimapplies = 1 /\ Len(TotalMsgs(1)) = 1

\* C11: within a round no node is inserted as a key twice: the apply about
\* to be inserted is never a key of the round's map already, the keys of the
\* map are exactly the applies counted in the round, and the assertion
\* before the insert never fails.
C11_NoDuplicateKey ==
  /\ "duplicate" \notin asserts
  /\ pc = "Insert" => app \notin DOMAIN substs
  /\ Cardinality(DOMAIN substs) =
       (IF pc = "Insert" THEN num_applies - 1
        ELSE IF substsLive THEN num_applies ELSE 0)

\* C11 witness: an apply is about to be inserted into a map that already
\* holds a key of this round.
C11_Witness == pc = "Insert" /\ DOMAIN substs # {} /\ app \notin DOMAIN substs

\* C12: the substitution map exists exactly from the start of a round to its
\* deletion after the round's rebuild; it is empty when the enumeration
\* begins, the map handed to rebuild is the one the finished enumeration of
\* the whole registry left, it is still that map when it is deleted, and no
\* map exists between rounds or when the pass has returned.
C12_MapLifecycle ==
  /\ substsLive <=> pc \in {"NextFun", "NextApp", "Insert", "Release",
                            "Rebuild", "DeleteSubst"}
  /\ ~substsLive => substs = EmptyMap
  /\ (pc = "NextFun" /\ doneFuns = {}) => substs = EmptyMap
  /\ pc = "Rebuild" =>
       Lambdas(refs) \subseteq doneFuns /\ Len(rebuilds) = Len(maps) - 1
  /\ pc \in {"Rebuild", "DeleteSubst"} =>
       maps # <<>> /\ maps[Len(maps)] = substs
  /\ pc \in {"NextFun", "NextApp", "Insert", "Release"} =>
       Len(maps) = Len(rebuilds)
  /\ pc = "DeleteSubst" => Len(rebuilds) = Len(maps)

\* C12 witness: in a second round a map with entries has been rebuilt with
\* and is about to be deleted.
C12_Witness == pc = "DeleteSubst" /\ round >= 2 /\ DOMAIN substs # {}

\* C13: one cache table is created per invocation, it exists from the first
\* round to the teardown, and from one step to the next, the loop's back
\* edge included, no entry is removed or changed: an entry put in a round
\* is present, with the value computed then, in every later round.
C13_CachePassScoped ==
  /\ [](/\ cacheCreated <= 1
        /\ pc \in {"RoundStart", "NextFun", "NextApp", "Insert", "Release",
                   "Rebuild", "DeleteSubst", "LoopTest", "DbgCheck",
                   "Teardown"} => cacheLive /\ cacheCreated = 1
        /\ cacheLive => \A k \in DOMAIN reductions :
                          /\ k \in DOMAIN cache
                          /\ cache[k] = BetaReduce(k[1][2], k[2]))
  /\ [][(cacheLive /\ pc # "Teardown") =>
          /\ cacheLive' /\ cacheCreated' = cacheCreated
          /\ \A k \in DOMAIN cache : k \in DOMAIN cache' /\ cache'[k] = cache[k]
       ]_vars

\* C13 witness: round 3 begins with an entry in the cache that was put in
\* round 1 and was served from the cache in round 2.
C13_Witness ==
  /\ pc = "NextFun" /\ round = 3
  /\ \E k \in DOMAIN cache :
       reductions[k] = <<1>> /\ <<k[1], k[2], 2>> \in hits

\* C14: when the loop has ended the teardown drains the cache: before it
\* every entry's value is a live node holding one reference per entry, after
\* it the table is gone with no entry left, every reference the entries
\* held has been released exactly once (no node released that was not
\* live), and each remaining count is the references of the graph's own
\* holders.
C14_CacheDrained ==
  /\ ~cacheLive => cache = EmptyMap
  /\ pc = "Teardown" =>
       /\ cacheLive /\ substs = EmptyMap /\ subst = NoNode
       /\ \A k \in DOMAIN cache :
            /\ cache[k] \in Live(refs)
            /\ refs[cache[k]] = EdgeRefs(refs, cache[k]) + RootRefs(cache[k])
                                + Cardinality({j \in DOMAIN cache :
                                                 cache[j] = cache[k]})
  /\ pc = "Stats" =>
       /\ ~cacheLive /\ cache = EmptyMap
       /\ Fault \notin DOMAIN refs
       /\ passAcq = passRel
       /\ \A n \in Live(refs) : refs[n] = EdgeRefs(refs, n) + RootRefs(n)

\* C14 witness: the teardown has drained a cache that held at least two
\* entries collected over three rounds.
C14_Witness ==
  pc = "Stats" /\ round = 4 /\ Cardinality(DOMAIN reductions) >= 2

\* the sum of a sequence of counts
RECURSIVE SumSeq(_)
SumSeq(s) == IF s = <<>> THEN 0 ELSE s[1] + SumSeq(Tail(s))

\* C15: every round of an invocation emits one record, the i-th carrying
\* index i and the number of keys of the i-th round's map; the records of
\* an invocation number as many as the rounds it has finished; the total
\* record and the duration are emitted at most once per invocation, after
\* every round record of it, when the loop has ended, and the total is the
\* sum of the rounds' counts. An invocation that returns at once on an
\* empty registry has no round and emits nothing.
C15_OneRecordPerRound ==
  LET rm == RoundMsgs(run)
      tm == TotalMsgs(run)
      allrounds == SelectSeq(msgs, LAMBDA m : m.kind = "round")
  IN
  /\ \A i \in DOMAIN rm : rm[i].round = i
  /\ Len(rm) = (IF pc \in {"Rebuild", "DeleteSubst", "LoopTest"} THEN round
                ELSE IF round = 0 THEN 0 ELSE round - 1)
  /\ Len(allrounds) = Len(maps)
  /\ \A i \in DOMAIN allrounds :
       allrounds[i].n = Cardinality(DOMAIN maps[i])
  /\ Len(tm) = (IF pc = "Converged" /\ Lambdas(refs0) # {} THEN 1 ELSE 0)
  /\ tm # <<>> => /\ msgs[Len(msgs)] = tm[1]
                  /\ tm[1].n = SumSeq(Counts(rm))
                  /\ rm # <<>> /\ rm[Len(rm)].n = 0
  /\ elimapplies = Len(SelectSeq(msgs, LAMBDA m : m.kind = "total"))
  /\ \A i, j \in DOMAIN msgs :
       (msgs[i].kind = "total" /\ msgs[j].run = msgs[i].run /\ i # j) =>
         j < i /\ msgs[j].kind = "round"

\* C15 witness: an invocation of three rounds returned with its three round
\* records and its total, two of the rounds having recorded substitutions.
C15_Witness ==
  /\ pc = "Converged" /\ Len(RoundMsgs(run)) = 3
  /\ RoundMsgs(run)[2].n >= 1
  /\ Len(TotalMsgs(run)) = 1 /\ TotalMsgs(run)[1].n >= 2

\* C16: the collector yields exactly the non-parameterized apply parents
\* of the registered lambdas: the apply being reduced or inserted is a live
\* parent of the current lambda, a live lambda, and is not parameterized;
\* every key of every round's map is an apply of a lambda and is not
\* parameterized; no reduction was computed for a parameterized argument;
\* and when the enumeration of a round is complete the keys of the map are
\* all the non-parameterized apply parents of the live lambdas, so every
\* apply left out is parameterized.
C16_CollectorExact ==
  /\ pc \in {"Insert", "Release"} =>
       /\ app \in ApplyParents(refs, fun)
       /\ fun \in Lambdas(refs)
       /\ ~Parameterized(app)
  /\ \A i \in DOMAIN maps : \A k \in DOMAIN maps[i] :
       IsApply(k) /\ IsLambda(k[2]) /\ ~Parameterized(k)
  /\ \A k \in DOMAIN substs :
       /\ IsApply(k) /\ IsLambda(k[2]) /\ ~Parameterized(k)
       /\ k \in ApplyParents(refs, k[2]) /\ k[2] \in Lambdas(refs)
  /\ \A k \in DOMAIN reductions : ~Parameterized(k[2])
  /\ pc = "Rebuild" =>
       DOMAIN substs =
         UNION {{a \in ApplyParents(refs, f) : ~Parameterized(a)} :
                  f \in Lambdas(refs)}

\* C16 witness: a round's enumeration is complete with a substitution
\* recorded while a parameterized apply parent of a live lambda was left out.
C16_Witness ==
  /\ pc = "Rebuild" /\ DOMAIN substs # {}
  /\ \E f \in Lambdas(refs) : \E a \in ApplyParents(refs, f) :
       Parameterized(a)

\* C18: a rebuild step taken with an empty map leaves the external handles
\* and the reference table (the live nodes, hence their edges, and every
\* count) as they were; the last round of an invocation is such a step.
C18_EmptyMapRebuild ==
  [][(pc = "Rebuild" /\ substs = EmptyMap) =>
       /\ roots' = roots /\ refs' = refs
       /\ Live(refs') = Live(refs)
       /\ \A i \in DOMAIN roots : Rebuilt(roots[i], EmptyMap) = roots[i]
    ]_vars

\* C18 witness: the rebuild of a confirming round, after a round that
\* substituted, has run with an empty map on a graph of live nodes.
C18_Witness ==
  /\ pc = "DeleteSubst" /\ substs = EmptyMap /\ round >= 2
  /\ rebuilds # <<>> /\ rebuilds[Len(rebuilds)].n = 0
  /\ Cardinality(Live(refs)) >= 3

\* the graph of a sequence of handles: its nodes and their counts
GraphOf(rts) == CreateAll([n \in {} |-> 0], rts)

\* what a round records on the graph of rts, whatever the order in which
\* lines 49-67 enumerate: every non-parameterized apply of a lambda, mapped
\* to its reduct
RoundMap(rts) ==
  [a \in {n \in UNION {SubTerms(rts[i]) : i \in DOMAIN rts} :
            IsApply(n) /\ IsLambda(n[2]) /\ ~Parameterized(n)} |->
     BetaReduce(a, NoNode)]

\* the rounds of lines 43-79 from the handles rts on: the counts and maps
\* of the rounds and the handles left
RECURSIVE Outcome(_)
Outcome(rts) ==
  LET m == RoundMap(rts)
  IN  IF ~LoopAgain(Cardinality(DOMAIN m))
        THEN [counts |-> <<Cardinality(DOMAIN m)>>, maps |-> <<m>>,
              roots |-> rts]
        ELSE LET o == Outcome([i \in DOMAIN rts |-> Rebuilt(rts[i], m)])
             IN  [counts |-> <<Cardinality(DOMAIN m)>> \o o.counts,
                  maps |-> <<m>> \o o.maps,
                  roots |-> o.roots]

\* C19: the outcome of an invocation is a function of the graph it was
\* called on: whichever lambda and whichever apply parent each step of the
\* enumeration takes, the counts recorded so far are a prefix of the same
\* sequence, and at return the per-round counts (hence the number of
\* rounds), the handles and the reference table of the final graph are the
\* same; in the first invocation so are the rounds' maps.
C19_OrderIrrelevant ==
  LET o == Outcome(roots0)
  IN  Lambdas(refs0) # {} =>
        /\ IsPrefix(Counts(RoundMsgs(run)), o.counts)
        /\ run = 1 => IsPrefix(maps, o.maps)
        /\ pc = "Converged" =>
             /\ Counts(RoundMsgs(run)) = o.counts
             /\ roots = o.roots
             /\ refs = GraphOf(o.roots)
             /\ run = 1 => maps = o.maps

\* C19 witness: an invocation returned whose first round enumerated two
\* lambdas with a non-parameterized apply parent each, in either order.
C19_Witness ==
  /\ pc = "Converged" /\ run = 1 /\ maps # <<>>
  /\ \E a, b \in DOMAIN maps[1] : a[2] # b[2]
  /\ Len(RoundMsgs(1)) >= 2

\* the invocation is a sequential function: while one of its steps is
\* enabled it is eventually taken; calling the pass again is up to the solver
FairSpec == Spec /\ WF_vars(PassStep)

StoredRefs(v) ==
  Cardinality({k \in DOMAIN cache : cache[k] = v})
  + Cardinality({k \in DOMAIN substs : substs[k] = v})
  + (IF subst = v THEN 1 ELSE 0)

\* C23: every node stored as a value in the current map or in the cache is
\* live, with at least one reference per place that stores it, and no
\* release ever hit a node that was not live; the driver gives up the
\* reducer's result only in the release step, when the map already stores
\* it for the apply just inserted; and an entry leaves the cache only in the
\* teardown.
C23_NoUseAfterRelease ==
  /\ [](/\ Fault \notin DOMAIN refs
        /\ \A k \in DOMAIN substs :
             /\ k \in Live(refs)
             /\ substs[k] \in Live(refs)
             /\ refs[substs[k]] >= StoredRefs(substs[k])
        /\ \A k \in DOMAIN cache :
             cache[k] \in Live(refs) /\ refs[cache[k]] >= StoredRefs(cache[k])
        /\ pc \in {"Insert", "Release"} =>
             subst \in Live(refs) /\ refs[subst] >= StoredRefs(subst)
        /\ pc = "Release" => app \in DOMAIN substs /\ substs[app] = subst)
  /\ [][(subst # NoNode /\ subst' = NoNode) =>
          (pc = "Release" /\ app \in DOMAIN substs /\ substs[app] = subst
           /\ subst \in Live(refs'))]_vars
  /\ [][(DOMAIN cache \ DOMAIN cache' # {}) => pc = "Teardown"]_vars

\* C23 witness: the driver has released its reference to a reduct that the
\* map and the cache both still store, and the node is live.
C23_Witness ==
  /\ pc = "NextApp" /\ redRel >= 1
  /\ \E k \in DOMAIN substs : \E c \in DOMAIN cache :
       substs[k] = cache[c] /\ substs[k] \in Live(refs)

\* C24: when the rebuild is called, the round's count num_applies is the
\* number of keys of the map and the number of non-parameterized apply
\* parents of the registered lambdas; it is the count the round's message
\* carried, and it is the value the loop condition then tests.
C24_CountIsKeys ==
  LET ground == UNION {{a \in ApplyParents(refs, f) : ~Parameterized(a)} :
                         f \in Lambdas(refs)}
  IN  /\ pc = "Rebuild" =>
           /\ num_applies = Cardinality(DOMAIN substs)
           /\ num_applies = Cardinality(ground)
           /\ msgs # <<>> /\ msgs[Len(msgs)].kind = "round"
           /\ msgs[Len(msgs)].n = num_applies
           /\ msgs[Len(msgs)].round = round
      /\ pc \in {"DeleteSubst", "LoopTest"} =>
           /\ rebuilds # <<>> /\ rebuilds[Len(rebuilds)].n = num_applies
           /\ num_applies = Cardinality(DOMAIN maps[Len(maps)])

\* C24 witness: the rebuild is about to be called in a round that counted
\* two applies and skipped a parameterized one.
C24_Witness ==
  /\ pc = "Rebuild" /\ num_applies >= 2
  /\ \E f \in Lambdas(refs) : \E a \in ApplyParents(refs, f) :
       Parameterized(a)

\* C25: when an invocation on a non-empty registry has returned, its last
\* round and no earlier one recorded zero substitutions, so the rounds
\* executed are the substituting rounds plus one; the round counter ends at
\* the rounds executed plus one; and the reported total is the sum of the
\* rounds' counts.
C25_RoundArithmetic ==
  LET rm == RoundMsgs(run)
      n == Len(rm)
  IN  (pc = "Converged" /\ Lambdas(refs0) # {}) =>
        /\ n >= 1 /\ rm[n].n = 0
        /\ \A i \in 1..(n - 1) : rm[i].n >= 1
        /\ n = Cardinality({i \in 1..n : rm[i].n >= 1}) + 1
        /\ round = n + 1
        /\ num_applies_total = SumSeq(Counts(rm))
        /\ TotalMsgs(run) # <<>>
        /\ TotalMsgs(run)[1].n = num_applies_total

\* C25 witness: an invocation returned after two substituting rounds and
\* the zero round, the counter at 4 and the total at least 2.
C25_Witness ==
  /\ pc = "Converged" /\ round = 4 /\ Len(RoundMsgs(run)) = 3
  /\ num_applies_total >= 2

\* ------------------------------------------------------ boolector_main
argVars == <<argv, argi, close_infile>>
flagVars == <<inc, incid, incla, incint, dump, static_verbosity>>
resultVars == <<parse_status, sat_res, main_res, parsed, solved>>
sigVars ==
  <<orig, disp, sig_handler, sigk, sigret, static_caught_sig, frames, raises>>

\* boolector_main runs: the process lives and no handler is on its stack
MainRuns == proc = "running" /\ frames = <<>>

\* one iteration of the argument loop that changes nothing
Keep ==
  [argi |-> argi + 1, file |-> close_infile, done |-> FALSE, error |-> "",
   inc |-> inc, incid |-> incid, incla |-> incla, incint |-> incint,
   dump |-> dump, verb |-> static_verbosity]

\* btormain_error (msg); goto DONE
Error(msg) == [Keep EXCEPT !.error = msg]

\* lines 805-834, 838-867, 871-900: one of the three window options; others
\* says that one of the other two was given before
WidthOpt(t, others, flag, msg) ==
  IF others THEN Error("Can only use one out of")
  ELSE IF t.val = NoVal /\ argi + 1 > Len(argv) THEN Error("missing argument")
  ELSE LET val == IF t.val = NoVal THEN Atoi(argv[argi + 1]) ELSE t.val
       IN  IF val < 1 THEN Error(msg)
           ELSE [Keep EXCEPT ![flag] = TRUE,
                             !.argi = argi + (IF t.val = NoVal THEN 2 ELSE 1)]

\* lines 589-980: what the loop body does with argument t
ArgOutcome(t) ==
  CASE t \in Words ->
         IF close_infile THEN Error("multiple input files")
         ELSE IF ~Readable(t) THEN Error("can not read")
         ELSE [Keep EXCEPT !.file = TRUE]
    [] t.k = "help" -> [Keep EXCEPT !.done = TRUE]
    [] t.k = "dump_btor" -> [Keep EXCEPT !.dump = TRUE]
    [] t.k = "invalid" -> Error("invalid option")
    [] t.k = "incremental" -> [Keep EXCEPT !.inc = TRUE]
    [] t.k = "incremental_in_depth" ->
         WidthOpt(t, incla \/ incint, "incid",
                  "incremental in-depth width must be >= 1")
    [] t.k = "incremental_look_ahead" ->
         WidthOpt(t, incid \/ incint, "incla",
                  "incremental look-ahead width must be >= 1")
    [] t.k = "incremental_inverval" ->
         WidthOpt(t, incid \/ incla, "incint",
                  "incremental interval width must be >= 1")
    [] t.k = "verbosity" -> [Keep EXCEPT !.verb = static_verbosity + 1]
    [] OTHER -> Keep

\* what print_sat_result, print_help and the dump functions write
MainLine(l) == [by |-> "boolector_main", sig |-> 0, lines |-> <<l>>]

\* lines 587-982: one iteration of the argument loop
ProcessArg ==
  /\ MainRuns /\ mpc = "Args" /\ argi <= Len(argv)
  /\ LET o == ArgOutcome(argv[argi])
     IN  /\ argi' = o.argi
         /\ close_infile' = o.file
         /\ done' = o.done
         /\ err' = (o.error # "")
         /\ errors' = IF o.error # "" THEN Append(errors, o.error) ELSE errors
         /\ inc' = o.inc /\ incid' = o.incid /\ incla' = o.incla
         /\ incint' = o.incint /\ dump' = o.dump
         /\ static_verbosity' = o.verb
         /\ printed' = IF o.done THEN Append(printed, MainLine("help"))
                       ELSE printed
         /\ mpc' = IF o.done \/ o.error # "" THEN "Done" ELSE "Args"
  /\ UNCHANGED <<argv, resultVars, sigVars, proc, passVars>>

\* lines 984-1077: the loop is over; no solver option is among the arguments,
\* so the default solver is set up and nothing fails
PostLoop ==
  /\ MainRuns /\ mpc = "Args" /\ argi > Len(argv)
  /\ mpc' = "SetSig"
  /\ sigk' = 1
  /\ UNCHANGED <<argVars, flagVars, resultVars, done, err, errors, printed,
                 orig, disp, sig_handler, sigret, static_caught_sig, frames,
                 raises, proc, passVars>>

\* set_sig_handlers: the call signal (SIGk, catch_sig) of one line
SetSigInstall ==
  /\ MainRuns /\ mpc = "SetSig"
  /\ sigret' = disp[sigk]
  /\ disp' = [disp EXCEPT ![sigk] = "catch"]
  /\ mpc' = "SetSigStore"
  /\ UNCHANGED <<argVars, flagVars, resultVars, done, err, errors, printed,
                 orig, sig_handler, sigk, static_caught_sig, frames, raises,
                 proc, passVars>>

\* set_sig_handlers: the store of the call's result into sig_k_handler
SetSigStore ==
  /\ MainRuns /\ mpc = "SetSigStore"
  /\ sig_handler' = [sig_handler EXCEPT ![sigk] = sigret]
  /\ sigk' = sigk + 1
  /\ mpc' = IF sigk = NumSigs THEN "Parse" ELSE "SetSig"
  /\ UNCHANGED <<argVars, flagVars, resultVars, done, err, errors, printed,
                 orig, disp, sigret, static_caught_sig, frames, raises, proc,
                 passVars>>

\* lines 1091-1178: parse the input, then the incremental result or the dump
Parse ==
  /\ MainRuns /\ mpc = "Parse"
  /\ \E parse_result \in {"error", "sat", "unsat", "unknown"},
        status \in {"sat", "unsat", "unknown"} :
       /\ parsed' = TRUE
       /\ parse_status' = status
       /\ IF parse_result = "error"
          THEN /\ err' = TRUE
               /\ errors' = Append(errors, "parse error")
               /\ mpc' = "Done"
               /\ UNCHANGED <<sat_res, printed>>
          ELSE IF inc
          THEN /\ sat_res' = IF parse_result \in {"sat", "unsat"}
                             THEN parse_result ELSE sat_res
               /\ printed' = Append(printed, MainLine(sat_res'))
               /\ mpc' = "Solve"
               /\ UNCHANGED <<err, errors>>
          ELSE IF dump
          THEN /\ printed' = Append(printed, MainLine("dump"))
               /\ mpc' = "Done"
               /\ UNCHANGED <<err, errors, sat_res>>
          ELSE /\ mpc' = "Solve"
               /\ UNCHANGED <<err, errors, sat_res, printed>>
  /\ UNCHANGED <<argVars, flagVars, done, main_res, solved, sigVars, proc,
                 passVars>>

\* lines 1180-1203: boolector_sat and the comparison with the status
Solve ==
  /\ MainRuns /\ mpc = "Solve"
  /\ \E r \in {"sat", "unsat"} :
       /\ sat_res' = r
       /\ solved' = TRUE
       /\ IF r # parse_status /\ parse_status # "unknown"
          THEN /\ err' = TRUE
               /\ errors' = Append(errors, "status mismatch")
               /\ UNCHANGED printed
          ELSE /\ printed' = Append(printed, MainLine(r))
               /\ UNCHANGED <<err, errors>>
  /\ mpc' = "Done"
  /\ UNCHANGED <<argVars, flagVars, done, parse_status, main_res, parsed,
                 sigVars, proc, passVars>>

\* the selection of lines 1206-1213 with the solver result looked at first
ExitCodeResultFirst(d, e, r, old) ==
  IF d THEN "succ"
  ELSE IF r = "unsat" THEN "unsat"
  ELSE IF r = "sat" THEN "sat"
  ELSE IF e THEN "err"
  ELSE old

\* lines 1206-1213: res keeps its old value where no branch is taken
ExitCode(d, e, r, old) ==
  IF d THEN "succ"
  ELSE IF e THEN "err"
  ELSE IF r = "unsat" THEN "unsat"
  ELSE IF r = "sat" THEN "sat"
  ELSE old

\* lines 1205-1225: the label DONE, up to reset_sig_handlers ()
DoneLabel ==
  /\ MainRuns /\ mpc = "Done"
  /\ main_res' = ExitCode(done, err, sat_res, main_res)
  /\ disp' = sig_handler
  /\ mpc' = "Return"
  /\ UNCHANGED <<argVars, flagVars, done, err, errors, printed, parse_status,
                 sat_res, parsed, solved, orig, sig_handler, sigk, sigret,
                 static_caught_sig, frames, raises, proc, passVars>>

\* line 1227: return res
Return ==
  /\ MainRuns /\ mpc = "Return"
  /\ proc' = "returned"
  /\ UNCHANGED <<argVars, flagVars, resultVars, done, err, errors, printed,
                 mpc, sigVars, passVars>>

\* a signal is blocked while its own handler runs
Blocked(s) == \E i \in 1..Len(frames) : frames[i].sig = s

\* the innermost running invocation of catch_sig
Top == frames[Len(frames)]

\* the innermost invocation moves on to position p
Goto(p) == [frames EXCEPT ![Len(frames)].hpc = p]

\* a signal arrives: catch_sig is entered, or the default action ends the
\* process, or the signal is ignored
Deliver ==
  /\ proc = "running"
  /\ \E s \in Sigs :
       /\ ~Blocked(s)
       /\ CASE disp[s] = "catch" ->
                 /\ frames' = Append(frames, [sig |-> s, hpc |-> "test"])
                 /\ UNCHANGED proc
            [] disp[s] = "DFL" ->
                 /\ proc' = "killed"
                 /\ UNCHANGED frames
            [] OTHER -> UNCHANGED <<proc, frames>>
  /\ UNCHANGED <<argVars, flagVars, resultVars, done, err, errors, printed,
                 mpc, orig, disp, sig_handler, sigk, sigret,
                 static_caught_sig, raises, passVars>>

\* line 484: the test of static_caught_sig
CatchTest ==
  /\ proc = "running" /\ frames # <<>> /\ Top.hpc = "test"
  /\ frames' = Goto(IF static_caught_sig THEN "reset" ELSE "set")
  /\ UNCHANGED <<argVars, flagVars, resultVars, done, err, errors, printed,
                 mpc, orig, disp, sig_handler, sigk, sigret,
                 static_caught_sig, raises, proc, passVars>>

\* line 486: static_caught_sig = 1
CatchSet ==
  /\ proc = "running" /\ frames # <<>> /\ Top.hpc = "set"
  /\ static_caught_sig' = TRUE
  /\ frames' = Goto("report")
  /\ UNCHANGED <<argVars, flagVars, resultVars, done, err, errors, printed,
                 mpc, orig, disp, sig_handler, sigk, sigret, raises, proc,
                 passVars>>

\* lines 487-495: the report, with the statistics when verbose
CatchReport ==
  /\ proc = "running" /\ frames # <<>> /\ Top.hpc = "report"
  /\ printed' =
       Append(printed,
              [by |-> "catch_sig", sig |-> Top.sig,
               lines |-> <<"CAUGHT SIGNAL", "unknown">> \o
                         (IF static_verbosity > 0
                          THEN <<"stats", "CAUGHT SIGNAL">> ELSE <<>>)])
  /\ frames' = Goto("reset")
  /\ UNCHANGED <<argVars, flagVars, resultVars, done, err, errors, mpc, orig,
                 disp, sig_handler, sigk, sigret, static_caught_sig, raises,
                 proc, passVars>>

\* line 497: reset_sig_handlers () of catch_sig
CatchReset ==
  /\ proc = "running" /\ frames # <<>> /\ Top.hpc = "reset"
  /\ disp' = sig_handler
  /\ frames' = Goto("raise")
  /\ UNCHANGED <<argVars, flagVars, resultVars, done, err, errors, printed,
                 mpc, orig, sig_handler, sigk, sigret, static_caught_sig,
                 raises, proc, passVars>>

\* lines 498-499: raise (sig); exit (sig). The signal is blocked in its own
\* handler, so raise returns and exit ends the process; restored records
\* whether the dispositions were the original ones when the signal was raised
CatchRaise ==
  /\ proc = "running" /\ frames # <<>> /\ Top.hpc = "raise"
  /\ raises' = Append(raises, [sig |-> Top.sig, restored |-> disp = orig])
  /\ proc' = "exited"
  /\ UNCHANGED <<argVars, flagVars, resultVars, done, err, errors, printed,
                 mpc, orig, disp, sig_handler, sigk, sigret,
                 static_caught_sig, frames, passVars>>

\* a process is started with some arguments and inherited dispositions
MainInit ==
  /\ PassFrame(<<Zero>>)
  /\ \E a \in ArgSeqs(MaxArgs), o \in [Sigs -> {"DFL", "IGN"}] : MainStart(a, o)

\* boolector_main from its call to its return, no signal arriving
MainNext ==
  \/ ProcessArg \/ PostLoop \/ SetSigInstall \/ SetSigStore \/ Parse \/ Solve
  \/ DoneLabel \/ Return

MainSpec == MainInit /\ [][MainNext]_vars

\* the process: boolector_main, the signals that arrive at any point of it and
\* the invocations of catch_sig they start
SigNext ==
  \/ ProcessArg \/ PostLoop \/ SetSigInstall \/ SetSigStore \/ Parse \/ Solve
  \/ DoneLabel \/ Return \/ Deliver \/ CatchTest \/ CatchSet \/ CatchReport
  \/ CatchReset \/ CatchRaise

SigSpec == MainInit /\ [][SigNext]_vars

\* the main state is well formed
MainTypeOK ==
  /\ mpc \in {"Args", "SetSig", "SetSigStore", "Parse", "Solve", "Done",
              "Return"}
  /\ proc \in {"running", "returned", "killed", "exited"}
  /\ main_res \in {"unknown", "succ", "err", "sat", "unsat"}
  /\ Len(frames) <= NumSigs

\* the three window options of the incremental modes, by their long names
WindowOpts ==
  {"incremental_in_depth", "incremental_look_ahead", "incremental_interval"}

\* the window options given on the command line with a width >= 1 attached
GivenWindows ==
  {argv[i].k : i \in {j \in 1..Len(argv) :
                        argv[j].k \in WindowOpts /\ argv[j].val >= 1}}

\* the messages btormain_error has printed
Errors == {errors[i] : i \in 1..Len(errors)}

\* C26: whenever two of the three options incremental-in-depth,
\* incremental-look-ahead and incremental-interval are given (each with a
\* valid width), boolector_main reports "Can only use one out of ..." and
\* returns the error exit code without having parsed or solved.
C26_OnlyOneWindowOption ==
  (proc = "returned" /\ Cardinality(GivenWindows) >= 2)
    => /\ main_res = "err"
       /\ "Can only use one out of" \in Errors
       /\ ~parsed /\ ~solved

\* how many times boolector_main has printed a sat result
ResultLines ==
  Cardinality({i \in 1..Len(printed) :
                 /\ printed[i].by = "boolector_main"
                 /\ printed[i].lines[1] \in {"sat", "unsat", "unknown"}})

\* C27: the value boolector_main returns is the success code if the help was
\* printed, otherwise the error code if any error was reported (a solver
\* result contradicting the benchmark status included, and then that result
\* is not printed), otherwise the code of the solver's sat or unsat result,
\* and the unknown code only in the remaining case.
C27_ExitCodePrecedence ==
  proc = "returned" =>
    /\ main_res = IF MainLine("help") \in {printed[i] : i \in 1..Len(printed)}
                  THEN "succ"
                  ELSE IF Errors # {} THEN "err"
                  ELSE IF sat_res \in {"sat", "unsat"} THEN sat_res
                  ELSE "unknown"
    /\ ResultLines = (IF inc /\ parsed /\ "parse error" \notin Errors
                      THEN 1 ELSE 0)
                     + (IF solved /\ "status mismatch" \notin Errors
                        THEN 1 ELSE 0)

C27_Witness ==
  /\ proc = "returned" /\ "status mismatch" \in Errors
  /\ sat_res = "sat" /\ parse_status = "unsat" /\ main_res = "err"
  /\ ResultLines = 0

\* the reports catch_sig has written
Reports == {i \in 1..Len(printed) : printed[i].by = "catch_sig"}

\* C28: whatever signals arrive, nested ones included, catch_sig writes its
\* report (with the statistics) at most once per process, and every
\* invocation has put the original handlers back when it raises the signal
\* again.
C28_ReportOnceAndRestore ==
  /\ Cardinality(Reports) <= 1
  /\ \A i \in 1..Len(raises) : raises[i].restored

====
